---- MODULE Spec2Model ----
(***************************************************************************)
(* A model of OTCTradingBot (src/No-Trading-aportunity.py): the rolling    *)
(* per-pair price history, the request limiter inside api_request, the     *)
(* RSI crossing detection of analyze_pair, the seeding / steady loop of    *)
(* start() with send_signal, and stop() and main().                        *)
(*                                                                         *)
(* Numbers.  Prices are small naturals.  Oscillator readings are kept in   *)
(* hundredths (the code rounds them to two decimals), so 40 is 4000; a     *)
(* NaN reading is the value NaN below, and every comparison with it is     *)
(* false as in IEEE arithmetic.  Time is in whole seconds.                 *)
(*                                                                         *)
(* Scale.  HISTORY_LENGTH is 100 and RSI_PERIOD is 14 in the source; the   *)
(* model keeps their roles (capacity, look-back length, the guard          *)
(* len < RSI_PERIOD + 1) at a scale TLC can enumerate.                     *)
(***************************************************************************)
EXTENDS Integers, Sequences, FiniteSets, TLC

VARIABLES
    price_history,   \* self.price_history[pair]['close'], oldest first
    last_api_call,   \* self.last_api_call
    api_calls,       \* self.api_calls
    running,         \* self.running
    now,             \* time.time()
    pc,              \* start(): where the coroutine stands
    idx,             \* start(): position of the `for pair in TRADING_PAIRS` loops
    ret,             \* what the get_market_data call just made returned (`data`)
    analysis,        \* what the analyze_pair call just made returned
    notified,        \* the pairs send_signal was invoked for in the current cycle
    cycles,          \* history variable: steady cycles started
    watch,           \* history variable: per pair, the reading of its latest
                     \* detection and the alert it is still inside of
    issued,          \* history variable: call and issue times of the latest requests
    log,             \* history variable: per pair, the closes stored since the
                     \* latest seed, in insertion order (the latest LogLength)
    within,          \* history variable: per pair, whether the latest seed fitted
                     \* the capacity
    session,         \* self.session: "none", "open" or "closed"
    sent,            \* the messages send_signal built in the current cycle, each
                     \* with whether bot.send_message delivered it
    stamp            \* history variable: per pair, the provider bar whose close
                     \* is the newest entry of the history (NaN: none)

bot == <<price_history, last_api_call, api_calls, running, now>>
control == <<pc, idx, notified, cycles, watch>>
extra == <<session, sent, stamp>>
vars == <<price_history, last_api_call, api_calls, running, now, pc, idx, ret,
          analysis, notified, cycles, watch, issued, log, within, session, sent,
          stamp>>

----------------------------------------------------------------------------
(* Configuration (lines 17-27) *)

TRADING_PAIRS == <<"EUR/USD", "USD/JPY">>
Pairs == {TRADING_PAIRS[i] : i \in 1..Len(TRADING_PAIRS)}

HISTORY_LENGTH == 4
RSI_PERIOD == 2
RSI_OVERBOUGHT == 50
RSI_OVERSOLD == 40
RATE_LIMIT == 6
UPDATE_INTERVAL == 60

(* Bounds of the model *)
MaxOver == 2           \* the log remembers MaxOver closes beyond the capacity
MaxCalls == 4          \* get_market_data is called MaxCalls times (below RATE_LIMIT)
RateHorizon == 190     \* callers of api_request are followed up to RateHorizon
MaxCycles == 4         \* start() is followed for MaxCycles steady cycles
StartTime == 100       \* time.time() at construction (any value >= 60)

(* The closes the provider quotes: the first pair moves, the others are    *)
(* flat.                                                                   *)
Prices == {0, 1}
PricesOf(pair) == IF pair = TRADING_PAIRS[1] THEN Prices ELSE {1}
LogLength == HISTORY_LENGTH + MaxOver
NaN == 0 - 1
Malformed == 0 - 1     \* a bar lacking 'close' or 'datetime'
Bars == Prices \cup {Malformed}

----------------------------------------------------------------------------
(* Sequences *)

RECURSIVE Reverse(_)
Reverse(s) == IF s = <<>> THEN <<>> ELSE Append(Reverse(Tail(s)), Head(s))

LastN(s, n) == IF Len(s) <= n THEN s ELSE SubSeq(s, Len(s) - n + 1, Len(s))

RECURSIVE SeqsUpTo(_, _)
SeqsUpTo(S, n) ==
    IF n = 0 THEN {<<>>}
    ELSE LET shorter == SeqsUpTo(S, n - 1)
         IN  shorter \cup {Append(s, x) : s \in {t \in shorter : Len(t) = n - 1}, x \in S}

Max(a, b) == IF a >= b THEN a ELSE b

RECURSIVE Pow(_, _)
Pow(b, e) == IF e = 0 THEN 1 ELSE b * Pow(b, e - 1)

----------------------------------------------------------------------------
(* api_request (lines 58-91) *)

WINDOW == 60           \* the literal 60 of lines 61-62
TIMEOUT == 5           \* aiohttp.ClientTimeout(total=5), line 70

(* What the provider does with one request.  "ok": status 200 and a JSON   *)
(* body without an error code; "status": a status other than 200; "code":  *)
(* a body carrying 'code' != 200; "timeout": no response within TIMEOUT;   *)
(* "neterr": the connection fails before the request is sent.              *)
Outcomes == {"ok", "status", "code", "timeout", "neterr"}

(* line 61 *)
Throttled == now - last_api_call < WINDOW /\ api_calls >= RATE_LIMIT

(* line 62 *)
wait_time == WINDOW - (now - last_api_call)

(* Lines 72-73 sit inside the `async with` body: they run once the response *)
(* has arrived, and not when session.get raises.                            *)
Recorded(outcome) == outcome \notin {"timeout", "neterr"}

(* The request leaves the process unless the connection itself failed. *)
Sent(outcome) == outcome # "neterr"

(* The moment session.get is entered: after the sleep of line 64, if any. *)
IssueTime == IF Throttled THEN now + wait_time ELSE now

(* The whole of api_request for a request the provider answers with        *)
(* `outcome` after d seconds: the limiter and the clock.                   *)
api_request(outcome, d) ==
    LET calls == IF Throttled THEN 0 ELSE api_calls            \* line 65
        took  == IF outcome = "timeout" THEN TIMEOUT ELSE d
        done  == IssueTime + took
    IN  /\ now' = done
        /\ IF Recorded(outcome)
           THEN last_api_call' = done /\ api_calls' = calls + 1   \* lines 72-73
           ELSE last_api_call' = last_api_call /\ api_calls' = calls

----------------------------------------------------------------------------
(* get_market_data (lines 93-129) *)

(* A response: the outcome of the request and, for "ok", the JSON body:    *)
(* whether it has a 'values' key and the bars under it, newest first.      *)
Response(outcome, hasValues, bars) ==
    [outcome |-> outcome, hasValues |-> hasValues, bars |-> bars]

(* line 107: api_request returned None, or the body has no 'values' *)
NoData(resp) == resp.outcome # "ok" \/ ~resp.hasValues

(* Lines 113-119 stand outside any try: bars[0] of an empty list           *)
(* (IndexError), latest_bar["close"] / ["datetime"] of a bar lacking them  *)
(* (KeyError) and, when seeding, bar["close"] of any bar of the batch.     *)
Raises(resp, history) ==
    /\ ~NoData(resp)
    /\ \/ resp.bars = <<>>
       \/ resp.bars[1] = Malformed
       \/ history /\ \E i \in 1..Len(resp.bars) : resp.bars[i] = Malformed

(* a seed that keeps the provider's order, newest first *)
seed_closes_unreversed(bars) == bars

(* line 119: the closes of the batch, oldest first *)
seed_closes(bars) == Reverse(bars)

(* a rolling update that evicts as soon as the capacity is reached *)
rolling_update_eager(closes, price) ==
    LET appended == Append(closes, price)
    IN  IF Len(appended) >= HISTORY_LENGTH THEN Tail(appended) ELSE appended

(* lines 124-126: append, then drop the oldest once if over capacity *)
rolling_update(closes, price) ==
    LET appended == Append(closes, price)
    IN  IF Len(appended) > HISTORY_LENGTH THEN Tail(appended) ELSE appended

NoRet == [pair |-> "", history |-> FALSE, kind |-> "", close |-> NaN, bars |-> <<>>]

Ret(pair, history, kind, close, bars) ==
    [pair |-> pair, history |-> history, kind |-> kind, close |-> close, bars |-> bars]

(* a bot whose pairs share one list of closes *)
get_market_data_shared(pair, history, resp, d) ==
    /\ api_request(resp.outcome, d)
    /\ IF NoData(resp)
       THEN /\ ret' = Ret(pair, history, "none", NaN, <<>>)
            /\ UNCHANGED price_history
       ELSE IF Raises(resp, history)
       THEN /\ ret' = Ret(pair, history, "raised", NaN, <<>>)
            /\ UNCHANGED price_history
       ELSE LET price == resp.bars[1]
            IN  /\ ret' = Ret(pair, history, "data", price,
                              IF history THEN resp.bars ELSE <<>>)
                /\ price_history' =
                      [p \in Pairs |->
                          IF history THEN seed_closes(resp.bars)
                          ELSE rolling_update(price_history[pair], price)]

(* One call: kind "none" is the return of line 109, "data" that of line    *)
(* 129, "raised" an exception leaving the method.                          *)
get_market_data(pair, history, resp, d) ==
    /\ api_request(resp.outcome, d)                              \* line 106
    /\ IF NoData(resp)
       THEN /\ ret' = Ret(pair, history, "none", NaN, <<>>)      \* lines 107-109
            /\ UNCHANGED price_history
       ELSE IF Raises(resp, history)
       THEN /\ ret' = Ret(pair, history, "raised", NaN, <<>>)
            /\ UNCHANGED price_history
       ELSE LET price == resp.bars[1]                            \* lines 113-114
            IN  /\ ret' = Ret(pair, history, "data", price,
                              IF history THEN resp.bars ELSE <<>>)
                /\ price_history' =
                      [price_history EXCEPT ![pair] =
                          IF history THEN seed_closes(resp.bars)
                          ELSE rolling_update(price_history[pair], price)]

----------------------------------------------------------------------------
(* analyze_pair (lines 131-167) *)

IsNaN(x) == x < 0

(* The weighted sums of gains and of losses up to the i-th close that      *)
(* ta.rsi forms (pandas_ta rma: ewm(alpha = 1/length), adjust on), both    *)
(* scaled by RSI_PERIOD^(i-2) so that they stay integers: the weight of    *)
(* the change j steps back is ((RSI_PERIOD - 1) / RSI_PERIOD)^j.           *)
RECURSIVE Gains(_, _)
Gains(h, i) ==
    IF i <= 1 THEN 0
    ELSE (RSI_PERIOD - 1) * Gains(h, i - 1)
         + Pow(RSI_PERIOD, i - 2) * Max(h[i] - h[i - 1], 0)

RECURSIVE Losses(_, _)
Losses(h, i) ==
    IF i <= 1 THEN 0
    ELSE (RSI_PERIOD - 1) * Losses(h, i - 1)
         + Pow(RSI_PERIOD, i - 2) * Max(h[i - 1] - h[i], 0)

(* round(rsi.iloc[i], 2) in hundredths: 100 * gains / (gains + losses),    *)
(* NaN before RSI_PERIOD changes are known and when no price has moved.    *)
rsi(h, i) ==
    IF i < RSI_PERIOD + 1 THEN NaN
    ELSE LET g == Gains(h, i)
             l == Losses(h, i)
         IN  IF g + l = 0 THEN NaN
             ELSE (20000 * g + (g + l)) \div (2 * (g + l))

(* lines 149-154; a comparison with NaN is false *)
Signal(current_rsi, previous_rsi) ==
    IF /\ ~IsNaN(current_rsi) /\ ~IsNaN(previous_rsi)
       /\ current_rsi <= 100 * RSI_OVERSOLD
       /\ previous_rsi > 100 * RSI_OVERSOLD
    THEN "CALL"
    ELSE IF /\ ~IsNaN(current_rsi) /\ ~IsNaN(previous_rsi)
            /\ current_rsi >= 100 * RSI_OVERBOUGHT
            /\ previous_rsi < 100 * RSI_OVERBOUGHT
    THEN "PUT"
    ELSE "None"

Analysis(pair, kind, signal, price, current_rsi, previous_rsi) ==
    [pair |-> pair, kind |-> kind, signal |-> signal, price |-> price,
     rsi |-> current_rsi, prev |-> previous_rsi]

NoAnalysis == Analysis("", "", "None", NaN, NaN, NaN)

(* line 147: the percentage change divides by the previous close, a float *)
DivisionByZero(closes) == closes[Len(closes) - 1] = 0

(* an analyze_pair that asks for RSI_PERIOD closes only *)
analyze_pair_short(pair, closes) ==
    IF Len(closes) < RSI_PERIOD
    THEN Analysis(pair, "insufficient", "None", NaN, NaN, NaN)
    ELSE Analysis(pair, "reading",
                  Signal(rsi(closes, Len(closes)), rsi(closes, Len(closes) - 1)),
                  closes[Len(closes)],
                  rsi(closes, Len(closes)), rsi(closes, Len(closes) - 1))

(* kind "insufficient" is the None of line 135, "error" the None of line   *)
(* 167, "reading" the dictionary of lines 157-163.                         *)
analyze_pair(pair, closes) ==
    IF Len(closes) < RSI_PERIOD + 1
    THEN Analysis(pair, "insufficient", "None", NaN, NaN, NaN)
    ELSE LET current_rsi  == rsi(closes, Len(closes))            \* line 143
             previous_rsi == rsi(closes, Len(closes) - 1)        \* line 144
         IN  IF DivisionByZero(closes)
             THEN Analysis(pair, "error", "None", NaN, current_rsi, previous_rsi)
             ELSE Analysis(pair, "reading", Signal(current_rsi, previous_rsi),
                           closes[Len(closes)], current_rsi, previous_rsi)

----------------------------------------------------------------------------
(* The bot after __init__ (lines 30-41); start() has not been called *)

Init ==
    /\ price_history = [p \in Pairs |-> <<>>]
    /\ last_api_call = 0
    /\ api_calls = 0
    /\ running = TRUE
    /\ now = StartTime
    /\ pc = "new"
    /\ idx = 1
    /\ ret = NoRet
    /\ analysis = NoAnalysis
    /\ notified = {}
    /\ cycles = 0
    /\ watch = [p \in Pairs |-> [last |-> NaN, alert |-> "None"]]
    /\ issued = <<>>
    /\ log = [p \in Pairs |-> <<>>]
    /\ within = [p \in Pairs |-> TRUE]
    /\ session = "none"
    /\ sent = <<>>
    /\ stamp = [p \in Pairs |-> NaN]

(* outputsize is HISTORY_LENGTH when seeding and 1 otherwise (line 103) *)
Asked(history) == IF history THEN HISTORY_LENGTH ELSE 1

(* The bodies the provider may send for a pair: up to Asked well-formed    *)
(* bars, one bar more than asked (the newest bar twice), no bar at all, or *)
(* a bar lacking a field in first or second place.                         *)
Batches ==
    [pair \in Pairs, history \in BOOLEAN |->
        SeqsUpTo(PricesOf(pair), Asked(history))
        \cup {<<b[1]>> \o b : b \in {c \in SeqsUpTo(PricesOf(pair), Asked(history)) :
                                         Len(c) = Asked(history)}}
        \cup {<<Malformed>>}
        \cup {<<q, Malformed>> : q \in PricesOf(pair)}]

Bodies ==
    [pair \in Pairs, history \in BOOLEAN |->
        {Response("ok", FALSE, <<>>)}
        \cup {Response("ok", TRUE, b) : b \in Batches[pair, history]}]

(* What may come back for a request, given the ways it may fail *)
Responses(pair, history, outcomes) ==
    {Response(o, FALSE, <<>>) : o \in outcomes \ {"ok"}} \cup Bodies[pair, history]

----------------------------------------------------------------------------
(* Spec: callers invoke get_market_data and analyze_pair in any order.     *)
(* Every request is answered at once, so the limiter counts all of them.   *)

Answered == {"ok", "status", "code"}

(* The closes stored for a pair since its latest seed, as its caller saw   *)
(* them go in.                                                             *)
Logged(pair, history) ==
    IF ret'.kind # "data"
    THEN UNCHANGED <<log, within>>
    ELSE IF history
    THEN /\ log' = [log EXCEPT ![pair] =
                       [i \in 1..Len(ret'.bars) |-> ret'.bars[Len(ret'.bars) + 1 - i]]]
         /\ within' = [within EXCEPT ![pair] = Len(ret'.bars) <= HISTORY_LENGTH]
    ELSE /\ log' = [log EXCEPT ![pair] =
                       LastN(Append(log[pair], ret'.close), LogLength)]
         /\ UNCHANGED within

GetMarketData ==
    /\ api_calls < MaxCalls
    /\ \E pair \in Pairs, history \in BOOLEAN :
        \E resp \in Responses(pair, history, Answered) :
            /\ get_market_data(pair, history, resp, 0)
            /\ Logged(pair, history)
            /\ analysis' = NoAnalysis
            /\ UNCHANGED <<running, issued>>
            /\ UNCHANGED control
            /\ UNCHANGED extra

AnalyzePair ==
    \E pair \in Pairs :
        /\ analysis' = analyze_pair(pair, price_history[pair])
        /\ ret' = NoRet
        /\ UNCHANGED <<issued, log, within>>
        /\ UNCHANGED bot
        /\ UNCHANGED control
        /\ UNCHANGED extra

Next == GetMarketData \/ AnalyzePair

Spec == Init /\ [][Next]_vars

----------------------------------------------------------------------------
(* SpecRate: callers invoke api_request at any pace, and the provider      *)
(* answers, fails or stays silent.                                         *)

Gaps == {30, 60}

(* The requests issued less than WINDOW before the latest one was called,  *)
(* itself included (the latest RATE_LIMIT + 1 of them).                    *)
Recent(reqs) ==
    LET latest == reqs[Len(reqs)].called
        inside == {i \in 1..Len(reqs) : reqs[i].sent > latest - WINDOW}
        first  == CHOOSE i \in inside : \A j \in inside : i <= j
    IN  LastN(SubSeq(reqs, first, Len(reqs)), RATE_LIMIT + 1)

Request(outcomes) ==
    \E outcome \in outcomes :
        /\ api_request(outcome, 0)
        /\ now' <= RateHorizon
        /\ issued' = IF Sent(outcome)
                     THEN Recent(Append(issued, [called |-> now, sent |-> IssueTime]))
                     ELSE issued
        /\ ret' = Ret("", FALSE, IF outcome = "ok" THEN "data" ELSE "none", NaN, <<>>)
        /\ UNCHANGED <<price_history, running, analysis, log, within>>
        /\ UNCHANGED control
        /\ UNCHANGED extra

Elapse ==
    \E gap \in Gaps :
        /\ now' = now + gap
        /\ now' <= RateHorizon
        /\ UNCHANGED <<price_history, last_api_call, api_calls, running, ret,
                       analysis, issued, log, within>>
        /\ UNCHANGED control
        /\ UNCHANGED extra

ApiRequest == Request(Outcomes)

NextRate == ApiRequest \/ Elapse

SpecRate == Init /\ [][NextRate]_vars

(* SpecAnswered: the same callers, and a provider that answers every       *)
(* request.                                                                *)
AnsweredRequest == Request(Answered)

NextAnswered == AnsweredRequest \/ Elapse

SpecAnswered == Init /\ [][NextAnswered]_vars

----------------------------------------------------------------------------
(* send_signal (lines 211-239) *)

(* The message of lines 212-230 for an analysis, and whether               *)
(* bot.send_message (line 232) delivered it.  "none" is the "No Trading    *)
(* Opportunity" text, "alert" the "<signal> Signal Alert" text.            *)
send_signal(a, pair, delivered) ==
    [pair      |-> pair,
     text      |-> IF a.signal = "None" THEN "none" ELSE "alert",
     signal    |-> a.signal,
     delivered |-> delivered]

----------------------------------------------------------------------------
(* SpecStart: start() (lines 169-209), one action per stretch of code      *)
(* between two awaits.  The provider answers every request at once.        *)

COOLDOWN == 5          \* asyncio.sleep(5), line 209
TIMEFRAME == 60        \* "1min" (line 20), in seconds

Steady == {"ok", "status"}

NumPairs == Len(TRADING_PAIRS)

(* The provider's latest bar at time t: bars are TIMEFRAME long *)
Bar(t) == t \div TIMEFRAME

(* What may come back for a request of start(): a request on a closed      *)
(* session raises inside api_request and is caught at line 89.             *)
Reachable(pair, history) ==
    IF session = "closed"
    THEN {Response("neterr", FALSE, <<>>)}
    ELSE Responses(pair, history, Steady)

(* The bar whose close a call has just stored *)
Stamped(pair) ==
    stamp' = IF ret'.kind = "data"
             THEN [stamp EXCEPT ![pair] = Bar(IssueTime)]
             ELSE stamp

(* the next iteration of `for pair in TRADING_PAIRS` (line 181), or the    *)
(* sleep after the loop (line 205)                                         *)
NextPair ==
    IF idx < NumPairs
    THEN pc' = "fetch" /\ idx' = idx + 1
    ELSE pc' = "sleep" /\ idx' = idx

(* lines 170-172.  verify_chat_id (lines 50-56) catches TelegramError      *)
(* only: with CHAT_ID set and no Telegram client (self.bot is None, line   *)
(* 35) its AttributeError leaves start().                                  *)
Start ==
    /\ pc = "new"
    /\ session' = "open"
    /\ \E verified \in {"sent", "TelegramError", "AttributeError"} :
           pc' = IF verified = "AttributeError" THEN "aborted" ELSE "seeding"
    /\ idx' = 1
    /\ UNCHANGED <<ret, analysis, notified, cycles, watch, issued, log, within,
                   sent, stamp>>
    /\ UNCHANGED bot

(* lines 175-176: outside the try of the steady loop, so an exception of   *)
(* get_market_data leaves start()                                          *)
SeedFrom(responses) ==
    /\ pc = "seeding"
    /\ \E resp \in responses :
           get_market_data(TRADING_PAIRS[idx], TRUE, resp, 0)
    /\ Stamped(TRADING_PAIRS[idx])
    /\ IF ret'.kind = "raised"
       THEN pc' = "crashed" /\ idx' = idx
       ELSE IF idx < NumPairs
       THEN pc' = "seeding" /\ idx' = idx + 1
       ELSE pc' = "top" /\ idx' = idx
    /\ UNCHANGED <<running, analysis, notified, cycles, watch, issued, log, within,
                   session, sent>>

SeedPair == SeedFrom(Reachable(TRADING_PAIRS[idx], TRUE))

(* lines 178-181 *)
CycleStart ==
    /\ pc = "top"
    /\ running
    /\ cycles < MaxCycles
    /\ pc' = "fetch"
    /\ idx' = 1
    /\ notified' = {}
    /\ sent' = <<>>
    /\ cycles' = cycles + 1
    /\ UNCHANGED <<ret, analysis, watch, issued, log, within, session, stamp>>
    /\ UNCHANGED bot

(* lines 182-183, and line 207 when get_market_data raises *)
FetchFrom(responses) ==
    /\ pc = "fetch"
    /\ \E resp \in responses :
           get_market_data(TRADING_PAIRS[idx], FALSE, resp, 0)
    /\ Stamped(TRADING_PAIRS[idx])
    /\ analysis' = NoAnalysis
    /\ IF ret'.kind = "raised" THEN pc' = "cooldown" /\ idx' = idx
       ELSE IF ret'.kind = "data" THEN pc' = "detect" /\ idx' = idx
       ELSE NextPair
    /\ UNCHANGED <<running, notified, cycles, watch, issued, log, within,
                   session, sent>>

(* a loop that runs the detection whatever the fetch returned *)
FetchLatest_always_detect ==
    /\ pc = "fetch"
    /\ \E resp \in Reachable(TRADING_PAIRS[idx], FALSE) :
           get_market_data(TRADING_PAIRS[idx], FALSE, resp, 0)
    /\ Stamped(TRADING_PAIRS[idx])
    /\ analysis' = NoAnalysis
    /\ IF ret'.kind = "raised" THEN pc' = "cooldown" /\ idx' = idx
       ELSE pc' = "detect" /\ idx' = idx
    /\ UNCHANGED <<running, notified, cycles, watch, issued, log, within,
                   session, sent>>

FetchLatest == FetchFrom(Reachable(TRADING_PAIRS[idx], FALSE))

(* What the detections of a pair have shown so far: its latest reading,    *)
(* and the alert whose zone the oscillator has not left since.             *)
Watched(w, a) ==
    IF a.kind # "reading" THEN w
    ELSE [last  |-> a.rsi,
          alert |-> IF a.signal # "None" THEN a.signal
                    ELSE IF /\ w.alert = "CALL" /\ ~IsNaN(a.rsi)
                            /\ a.rsi <= 100 * RSI_OVERSOLD THEN "CALL"
                    ELSE IF /\ w.alert = "PUT" /\ ~IsNaN(a.rsi)
                            /\ a.rsi >= 100 * RSI_OVERBOUGHT THEN "PUT"
                    ELSE "None"]

(* a loop that hands every analysis to send_signal, None included *)
Detect_always_notify ==
    /\ pc = "detect"
    /\ analysis' = analyze_pair(TRADING_PAIRS[idx], price_history[TRADING_PAIRS[idx]])
    /\ watch' = [watch EXCEPT ![TRADING_PAIRS[idx]] = Watched(@, analysis')]
    /\ pc' = "notify" /\ idx' = idx
    /\ UNCHANGED <<ret, notified, cycles, issued, log, within>>
    /\ UNCHANGED bot
    /\ UNCHANGED extra

(* lines 184-199: analyze_pair; the block of lines 187-196 only prints *)
Detect ==
    /\ pc = "detect"
    /\ analysis' = analyze_pair(TRADING_PAIRS[idx], price_history[TRADING_PAIRS[idx]])
    /\ watch' = [watch EXCEPT ![TRADING_PAIRS[idx]] = Watched(@, analysis')]
    /\ IF analysis'.kind = "reading" THEN pc' = "notify" /\ idx' = idx
       ELSE NextPair
    /\ UNCHANGED <<ret, notified, cycles, issued, log, within>>
    /\ UNCHANGED bot
    /\ UNCHANGED extra

(* a send_signal that lets the exception of bot.send_message through *)
Notify_propagating ==
    /\ pc = "notify"
    /\ notified' = notified \cup {TRADING_PAIRS[idx]}
    /\ \E delivered \in BOOLEAN :
           /\ sent' = Append(sent, send_signal(analysis, TRADING_PAIRS[idx], delivered))
           /\ IF delivered THEN NextPair ELSE pc' = "cooldown" /\ idx' = idx
    /\ UNCHANGED <<ret, analysis, cycles, watch, issued, log, within, session, stamp>>
    /\ UNCHANGED bot

(* lines 200-202: send_signal, whose try (lines 231-239) catches whatever  *)
(* bot.send_message raises, the AttributeError of a missing client         *)
(* included; self.last_prediction is written and never read, and is left   *)
(* out                                                                     *)
Notify ==
    /\ pc = "notify"
    /\ notified' = notified \cup {TRADING_PAIRS[idx]}
    /\ \E delivered \in BOOLEAN :
           /\ sent' = Append(sent, send_signal(analysis, TRADING_PAIRS[idx], delivered))
           /\ NextPair
    /\ UNCHANGED <<ret, analysis, cycles, watch, issued, log, within, session, stamp>>
    /\ UNCHANGED bot

(* lines 204-205 *)
Sleep ==
    /\ pc = "sleep"
    /\ now' = now + UPDATE_INTERVAL
    /\ pc' = "top"
    /\ UNCHANGED <<price_history, last_api_call, api_calls, running, idx, ret,
                   analysis, notified, cycles, watch, issued, log, within>>
    /\ UNCHANGED extra

(* lines 207-209 *)
Cooldown ==
    /\ pc = "cooldown"
    /\ now' = now + COOLDOWN
    /\ pc' = "top"
    /\ UNCHANGED <<price_history, last_api_call, api_calls, running, idx, ret,
                   analysis, notified, cycles, watch, issued, log, within>>
    /\ UNCHANGED extra

NextStart ==
    \/ Start
    \/ SeedPair
    \/ CycleStart
    \/ FetchLatest
    \/ Detect
    \/ Notify
    \/ Sleep
    \/ Cooldown

SpecStart == Init /\ [][NextStart]_vars

----------------------------------------------------------------------------
(* SpecStop: start() under main() (lines 247-254), with stop() signalled   *)
(* from outside at any await of start().  The event loop keeps running     *)
(* start() and main(): every sleep ends and every request resolves.  The   *)
(* provider has one bar at most for each request.                          *)

Brief(pair, history) ==
    {r \in Reachable(pair, history) : Len(r.bars) <= 1}

BriefSeed == SeedFrom(Brief(TRADING_PAIRS[idx], TRUE))

BriefFetch == FetchFrom(Brief(TRADING_PAIRS[idx], FALSE))

InStart == pc \in {"seeding", "top", "fetch", "detect", "notify", "sleep", "cooldown"}

(* lines 241-245, called while start() is suspended *)
Stop ==
    /\ InStart
    /\ running
    /\ running' = FALSE
    /\ session' = "closed"
    /\ UNCHANGED <<price_history, last_api_call, api_calls, now, ret, analysis,
                   issued, log, within, sent, stamp>>
    /\ UNCHANGED control

(* a loop that never looks at self.running *)
Return_never ==
    /\ pc = "top"
    /\ ~running
    /\ pc' = "top"
    /\ UNCHANGED <<idx, notified, cycles, watch>>
    /\ UNCHANGED <<ret, analysis, issued, log, within>>
    /\ UNCHANGED bot
    /\ UNCHANGED extra

(* line 178: self.running is false, start() returns *)
Return ==
    /\ pc = "top"
    /\ ~running
    /\ pc' = "returned"
    /\ UNCHANGED <<idx, notified, cycles, watch>>
    /\ UNCHANGED <<ret, analysis, issued, log, within>>
    /\ UNCHANGED bot
    /\ UNCHANGED extra

(* lines 253-254: main() calls stop() when start() has returned or raised *)
MainFinally ==
    /\ pc \in {"returned", "crashed", "aborted"}
    /\ pc' = "exited"
    /\ running' = FALSE
    /\ session' = IF session = "none" THEN "none" ELSE "closed"
    /\ UNCHANGED <<price_history, last_api_call, api_calls, now, ret, analysis,
                   issued, log, within, sent, stamp>>
    /\ UNCHANGED <<idx, notified, cycles, watch>>

Run ==
    \/ Start
    \/ BriefSeed
    \/ CycleStart
    \/ BriefFetch
    \/ Detect
    \/ Notify
    \/ Sleep
    \/ Cooldown
    \/ Return
    \/ MainFinally

NextStop == Run \/ Stop

SpecStop == Init /\ [][NextStop]_vars /\ WF_vars(Run)

----------------------------------------------------------------------------
(* Properties of the price history (Spec) *)

(* C1: after any sequence of seeds and rolling updates, every pair's price *)
(* history holds at most HISTORY_LENGTH closes, however many bars the      *)
(* provider sent.                                                          *)
C1_HistoryWithinCapacity ==
    \A p \in Pairs : Len(price_history[p]) <= HISTORY_LENGTH

(* C2: a history that started within capacity holds, after any number of   *)
(* rolling appends, exactly the latest HISTORY_LENGTH closes that went in, *)
(* in insertion order: when k more than the capacity went in, the k oldest *)
(* are gone.                                                               *)
C2_MostRecentInOrder ==
    \A p \in Pairs :
        within[p] =>
            /\ Len(price_history[p]) <= HISTORY_LENGTH
            /\ price_history[p] = LastN(log[p], HISTORY_LENGTH)

(* C2 happens: MaxOver closes beyond the capacity went into a history that *)
(* started within it, the last of them just now.                           *)
C2_Witness ==
    /\ ret.kind = "data"
    /\ ~ret.history
    /\ within[ret.pair]
    /\ Len(log[ret.pair]) = HISTORY_LENGTH + MaxOver
    /\ log[ret.pair][1] # log[ret.pair][MaxOver + 1]

(* C3: after a successful seed the pair's history is the batch read        *)
(* backwards, oldest first, and as long as the batch; nothing else is in   *)
(* it.                                                                     *)
C3_SeedReplacesWholesale ==
    (ret.kind = "data" /\ ret.history) =>
        LET closes == price_history[ret.pair]
            n == Len(ret.bars)
        IN  /\ Len(closes) = n
            /\ \A i \in 1..n : closes[i] = ret.bars[n + 1 - i]

(* C3 happens: a batch of HISTORY_LENGTH bars that reads differently       *)
(* backwards was seeded by a call that was not the first.                  *)
C3_Witness ==
    /\ ret.kind = "data"
    /\ ret.history
    /\ Len(ret.bars) = HISTORY_LENGTH
    /\ ret.bars[1] # ret.bars[HISTORY_LENGTH]
    /\ api_calls > 1

(* The classification of section 4.4, on readings in hundredths *)
Crossing(current, previous) ==
    IF IsNaN(current) \/ IsNaN(previous) THEN "None"
    ELSE IF current <= 100 * RSI_OVERSOLD /\ previous > 100 * RSI_OVERSOLD THEN "CALL"
    ELSE IF current >= 100 * RSI_OVERBOUGHT /\ previous < 100 * RSI_OVERBOUGHT THEN "PUT"
    ELSE "None"

(* C6: whatever the closes, a detection whose oscillator readings are      *)
(* (current, previous) returns Call exactly when current <= oversold and   *)
(* previous > oversold, Put exactly when current >= overbought and         *)
(* previous < overbought, and None otherwise; the percentage price change  *)
(* has no part in it.                                                      *)
C6_SignalFromReadingsOnly ==
    /\ Signal(4500, 5500) = "None"
    /\ Signal(3900, 4100) = "CALL"
    /\ Signal(5100, 4900) = "PUT"
    /\ Signal(3500, 3500) = "None"
    /\ analysis.kind \in {"reading", "error"} =>
           \A s \in {"CALL", "PUT"} :
               (analysis.kind = "reading" /\ analysis.signal = s)
                   <=> Crossing(analysis.rsi, analysis.prev) = s

(* C9: a fetch never raises to its caller, whatever the response. *)
C9_FetchNeverRaises == ret.kind # "raised"

----------------------------------------------------------------------------
(* Properties of the limiter (SpecRate) *)

(* C4: no more than RATE_LIMIT requests are issued within any interval of  *)
(* WINDOW seconds: of any RATE_LIMIT + 1 requests, the last is issued at   *)
(* least WINDOW after the first.                                           *)
C4_AtMostRateLimitPerWindow ==
    \A i, j \in DOMAIN issued :
        j - i >= RATE_LIMIT => issued[j].sent - issued[i].sent >= WINDOW

(* C5: when RATE_LIMIT + 1 requests are made within one window, the last   *)
(* of them is issued at the window boundary, WINDOW after the first.       *)
C5_DelayedUntilWindowBoundary ==
    (/\ Len(issued) = RATE_LIMIT + 1
     /\ issued[RATE_LIMIT + 1].called - issued[1].sent < WINDOW)
        => issued[RATE_LIMIT + 1].sent = issued[1].sent + WINDOW

----------------------------------------------------------------------------
(* Properties of the detection and of the steady loop (SpecStart) *)

Valid(x) == ~IsNaN(x)

(* C7: each crossing gives exactly one signal.  At every detection that    *)
(* yields a reading: no Call (Put) while the pair is still inside the      *)
(* oversold (overbought) zone of an earlier Call (Put), and a Call (Put)   *)
(* whenever the pair's previous reading was above oversold (below          *)
(* overbought) and this one is not.                                        *)
C7_OneSignalPerCrossing ==
    [][(pc = "detect" /\ analysis'.kind = "reading") =>
          LET seen == watch[TRADING_PAIRS[idx]]
              current == analysis'.rsi
          IN  /\ ~(analysis'.signal = "CALL" /\ seen.alert = "CALL")
              /\ ~(analysis'.signal = "PUT" /\ seen.alert = "PUT")
              /\ (/\ Valid(seen.last) /\ Valid(current)
                  /\ seen.last > 100 * RSI_OVERSOLD
                  /\ current <= 100 * RSI_OVERSOLD) => analysis'.signal = "CALL"
              /\ (/\ Valid(seen.last) /\ Valid(current)
                  /\ seen.last < 100 * RSI_OVERBOUGHT
                  /\ current >= 100 * RSI_OVERBOUGHT) => analysis'.signal = "PUT"
      ]_vars

(* C8: a pair whose history holds RSI_PERIOD closes or fewer, none         *)
(* included, gets "insufficient data" from analyze_pair, not an error, and *)
(* no notification in the cycle.                                           *)
C8_InsufficientData ==
    \A p \in Pairs :
        Len(price_history[p]) <= RSI_PERIOD =>
            /\ analyze_pair(p, price_history[p]).kind = "insufficient"
            /\ analysis.pair = p => analysis.kind = "insufficient"
            /\ p \notin notified

(* C8 happens: in a second or later cycle a detection ran on a history of  *)
(* exactly RSI_PERIOD closes, next to a pair that was notified.            *)
C8_Witness ==
    /\ cycles > 1
    /\ analysis.kind = "insufficient"
    /\ Len(price_history[analysis.pair]) = RSI_PERIOD
    /\ notified # {}

(* C10: an exception in one pair's step does not end the cycle for the     *)
(* pairs after it: when the loop's handler (line 207) is reached, no pair  *)
(* is left unfetched in that cycle.                                        *)
C10_CycleNotAborted == pc = "cooldown" => idx = NumPairs

----------------------------------------------------------------------------
(* Properties of the notification (SpecStart) *)

(* C11: in every cycle send_signal is invoked exactly once for a pair      *)
(* whose fetch returned data and whose detection gave a reading, with that *)
(* pair and that reading's signal (the alert text when the signal is       *)
(* Call), and is not invoked for a pair whose fetch failed or whose        *)
(* history is insufficient.                                                *)
C11_NotifiedOncePerReading ==
    [][LET pair == TRADING_PAIRS[idx]
       IN  /\ (pc = "detect" /\ analysis'.kind = "reading") =>
                  pc' = "notify" /\ idx' = idx
           /\ pc = "notify" =>
                  /\ ret.kind = "data" /\ ret.pair = pair
                  /\ analysis.kind = "reading" /\ analysis.pair = pair
                  /\ \A i \in DOMAIN sent : sent[i].pair # pair
                  /\ Len(sent') = Len(sent) + 1
                  /\ SubSeq(sent', 1, Len(sent)) = sent
                  /\ sent'[Len(sent')].pair = pair
                  /\ sent'[Len(sent')].signal = analysis.signal
                  /\ analysis.signal = "CALL" => sent'[Len(sent')].text = "alert"
           /\ pc \notin {"notify", "top"} => sent' = sent
      ]_vars

(* C11 happens: a cycle is over in which one pair got its Call alert and   *)
(* the other pair, whose fetch failed, got nothing.                        *)
C11_Witness ==
    /\ pc = "sleep"
    /\ Len(sent) = 1
    /\ sent[1].signal = "CALL"
    /\ sent[1].text = "alert"
    /\ ret.kind = "none"

(* C12: a send_signal whose delivery fails ends like one that delivers:    *)
(* the loop goes on with the next pair (or with the sleep after the last   *)
(* one), and the price histories and the limiter are as they were.         *)
C12_DeliveryFailureSwallowed ==
    [][(pc = "notify" /\ ~sent'[Len(sent')].delivered) =>
           /\ pc' = IF idx < NumPairs THEN "fetch" ELSE "sleep"
           /\ idx' = IF idx < NumPairs THEN idx + 1 ELSE idx
           /\ UNCHANGED <<price_history, last_api_call, api_calls>>
      ]_vars

(* C12 happens: the first pair's message was not delivered and the second  *)
(* pair was fetched, analysed and notified in the same cycle.              *)
C12_Witness ==
    /\ Len(sent) = 2
    /\ ~sent[1].delivered
    /\ sent[1].pair = TRADING_PAIRS[1]
    /\ sent[2].pair = TRADING_PAIRS[2]
    /\ ret.pair = TRADING_PAIRS[2]
    /\ ret.kind = "data"

----------------------------------------------------------------------------
(* Properties of stopping (SpecStop) *)

(* C13: once stop() has been signalled while start() runs, be it while     *)
(* seeding, in mid-cycle or during a sleep, start() eventually returns,    *)
(* and the session is closed by then.  Every request is one step of the    *)
(* model, so start() never returns with a request in flight.               *)
C13_StopEndsStart ==
    (InStart /\ ~running) ~> (pc = "returned" /\ session = "closed")

(* C13 happens: start() has returned from a cycle in which the first pair  *)
(* was notified and the second pair's fetch came back empty-handed.        *)
C13_Witness ==
    /\ pc = "returned"
    /\ session = "closed"
    /\ Len(sent) = 1
    /\ sent[1].pair = TRADING_PAIRS[1]
    /\ ret.pair = TRADING_PAIRS[2]
    /\ ret.kind = "none"

(* C14: once stop() has set running to false, no further iteration of the  *)
(* seeding loop is started (an iteration moves on to the next pair, ends   *)
(* the seeding or raises) and no further steady cycle is started.          *)
C14_NothingStartedAfterStop ==
    [][~running =>
           /\ pc = "seeding" => (idx' = idx /\ pc' \notin {"top", "crashed"})
           /\ pc = "top" => pc' # "fetch"
      ]_vars

(* C15: no fault ends start(): an exception of a seeding or steady step is *)
(* caught and followed by the cooldown, and start() returns only after     *)
(* stop() was signalled.                                                   *)
C15_OnlyStopEndsStart ==
    /\ pc # "crashed"
    /\ pc = "returned" => ~running

----------------------------------------------------------------------------
(* Further properties of the limiter (SpecAnswered) *)

(* C16: the counter of the limiter counts the requests of the current      *)
(* window only: it never exceeds RATE_LIMIT, and a request made when the   *)
(* window has elapsed (even the latest request is more than WINDOW         *)
(* seconds old) is counted as the first of a new window.                   *)
C16_CounterOfCurrentWindow ==
    [][/\ api_calls' <= RATE_LIMIT
       /\ (last_api_call' # last_api_call /\ now - last_api_call > WINDOW) =>
              api_calls' = 1
      ]_vars

----------------------------------------------------------------------------
(* Further properties of the seeding and of the steady loop (SpecStart) *)

(* C17: the seeding always goes on to the next pair and, after the last    *)
(* one, to the steady loop, whichever seed fetches fail; a pair whose seed *)
(* failed has an empty history; and a detection reports "insufficient      *)
(* data" while the history holds RSI_PERIOD closes or fewer, and gives a   *)
(* reading from then on.                                                   *)
C17_SeedingAlwaysLeadsToSteady ==
    [][LET pair == TRADING_PAIRS[idx]
       IN  /\ pc = "seeding" =>
                  /\ pc' = IF idx < NumPairs THEN "seeding" ELSE "top"
                  /\ ret'.kind # "data" => price_history'[pair] = <<>>
           /\ pc = "detect" =>
                  analysis'.kind = IF Len(price_history[pair]) <= RSI_PERIOD
                                   THEN "insufficient" ELSE "reading"
      ]_vars

(* C18: a detection runs on a pair only after the fetch of that pair in    *)
(* the same cycle returned data: the newest close of the history it reads, *)
(* and the price of the reading it gives, is the close just fetched.       *)
C18_DetectionReadsFetchedPrice ==
    LET pair == TRADING_PAIRS[idx]
        closes == price_history[pair]
    IN  /\ pc \in {"detect", "notify"} =>
               /\ ret.kind = "data" /\ ret.pair = pair /\ ~ret.history
               /\ closes # <<>>
               /\ closes[Len(closes)] = ret.close
        /\ pc = "notify" =>
               /\ analysis.kind = "reading" /\ analysis.pair = pair
               /\ analysis.price = ret.close

(* C18 happens: in a later cycle a reading was given on a close that       *)
(* differs from the one before it.                                         *)
C18_Witness ==
    LET closes == price_history[TRADING_PAIRS[idx]]
    IN  /\ pc = "notify"
        /\ cycles > 1
        /\ analysis.price = 0
        /\ closes[Len(closes) - 1] = 1

(* C19: a pair's history changes only in a fetch of that same pair that    *)
(* returns data: a fetch that fails, a detection and a notification change *)
(* no history, and a fetch that succeeds changes no other pair's.          *)
C19_HistoryChangedByOwnFetchOnly ==
    [][\A p \in Pairs :
           price_history'[p] # price_history[p] =>
               /\ pc \in {"seeding", "fetch"}
               /\ p = TRADING_PAIRS[idx]
               /\ ret'.kind = "data"
               /\ ret'.pair = p
      ]_vars

(* C19 happens: the second pair's fetch has just stored a close, after the *)
(* first pair was analysed and notified in the same cycle, and the two     *)
(* histories differ.                                                       *)
C19_Witness ==
    /\ pc = "detect"
    /\ idx = 2
    /\ ret.kind = "data"
    /\ Len(sent) = 1
    /\ sent[1].pair = TRADING_PAIRS[1]
    /\ price_history[TRADING_PAIRS[1]] # price_history[TRADING_PAIRS[2]]

(* C20: a provider bar gives one entry of a history at most: a steady      *)
(* fetch whose latest bar is the bar whose close is already the newest     *)
(* entry (the newest bar of the seed, or the bar of the previous cycle)    *)
(* leaves the history as it is.                                            *)
C20_OneEntryPerBar ==
    [][LET pair == TRADING_PAIRS[idx]
       IN  (/\ pc = "fetch"
            /\ ret'.kind = "data"
            /\ stamp[pair] = Bar(IssueTime)) =>
               price_history'[pair] = price_history[pair]
      ]_vars

====
